---- MODULE Spec2Model ----
(***************************************************************************)
(* State-machine model of the messaging core of SC_Backend:                *)
(*   models/Conversation.js  (src/models/Conversation.js, lines 1-141)     *)
(*   routes/messages.js      (src/models/Conversation.js, lines 143-670)   *)
(*   models/Message.js       (src/unnamed/part_002)                        *)
(*   middleware/auth.js      (src/unnamed/part_001)                        *)
(*   routes/users.js         (src/users.js)                                *)
(* Every route handler is one action; the Mongoose model methods and       *)
(* statics it calls are operators.                                         *)
(***************************************************************************)
EXTENDS Integers, Sequences, FiniteSets, TLC

VARIABLES users, services, conversations, messages, now, resp, tasks

vars == <<users, services, conversations, messages, now, resp, tasks>>

-----------------------------------------------------------------------------
(* Bounds of the model.                                                    *)

MaxMessages == 2
MaxClock == 2
MaxSearchMessages == 13
MaxTasks == 2

-----------------------------------------------------------------------------
(* Program constants.                                                      *)

ContentMaxLength == 1000
LastMessageMaxLength == 100
SearchInConversationLimit == 10
SearchAllLimit == 20
NullDate == 0

-----------------------------------------------------------------------------
(* Strings.  A string is [ws, chars, fill]: `chars' are its first letters, *)
(* `fill' counts the further characters that follow them (digits, which no *)
(* letter query matches) and `ws' counts the white space around the text.  *)

Str(chars, fill, ws) == [ws |-> ws, chars |-> chars, fill |-> fill]

Length(s) == s.ws + Len(s.chars) + s.fill

Min(a, b) == IF a <= b THEN a ELSE b

\* String.prototype.trim / the validator's .trim() / the schema's trim: true
Trim(s) == [s EXCEPT !.ws = 0]

\* content.substring(0, n) of a trimmed string
Substring(s, n) ==
  IF Len(s.chars) >= n
    THEN [s EXCEPT !.chars = SubSeq(s.chars, 1, n), !.fill = 0]
    ELSE [s EXCEPT !.fill = Min(s.fill, n - Len(s.chars))]

UpperCase ==
  ("B" :> "b") @@ ("O" :> "o") @@ ("N" :> "n") @@ ("M" :> "m")

ToLower(ch) == IF ch \in DOMAIN UpperCase THEN UpperCase[ch] ELSE ch

\* { $regex: q, $options: 'i' } for a query q made of letters
RegexMatchI(s, q) ==
  \E i \in 1..(Len(s.chars) - Len(q) + 1) :
    \A j \in 1..Len(q) : ToLower(s.chars[i + j - 1]) = ToLower(q[j])

Bonjour == Str(<<"B", "o", "n", "j", "o", "u", "r">>, 0, 0)
BonjourPadded == Str(<<"B", "o", "n", "j", "o", "u", "r">>, 0, 2)
BonUpper == Str(<<"B", "O", "N">>, 0, 0)
Merci == Str(<<"M", "e", "r", "c", "i">>, 0, 0)
EmptyString == Str(<<>>, 0, 0)
Blank == Str(<<>>, 0, 3)
Long101 == Str(<<"b", "o", "n">>, 98, 0)
Long1000 == Str(<<"m">>, 999, 1)
Long1001 == Str(<<"m">>, 1000, 0)

-----------------------------------------------------------------------------
(* Identifiers.  An ObjectId is one token; "ghost" is a well-formed id of  *)
(* no user, "bad-id" is not a well-formed id, "none" is null/undefined.    *)

UserIds == {"u1", "u2", "u3"}
ServiceIds == {"s1", "s2"}

\* express-validator isMongoId(): 24 hexadecimal digits of either case
IsMongoId(id) == id # "bad-id"

\* Mongoose's cast of a string to an ObjectId: the hexadecimal digits are
\* read in either case, so "U2", the upper-case spelling of u2's id, is u2's
\* id; ObjectId#toString() always gives the lower-case spelling.
CastObjectId(id) == IF id = "U2" THEN "u2" ELSE id

-----------------------------------------------------------------------------
(* References and their string forms.  A reference held by a loaded        *)
(* document is either a bare ObjectId or, after .populate(), the referenced*)
(* User document restricted to the selected fields.  ObjectId#toString()   *)
(* is the id; Document#toString() is Mongoose's console helper, the        *)
(* inspected object, which is never an id.                                 *)

Ref(u) == [_id |-> u, populated |-> FALSE, firstName |-> <<>>, lastName |-> <<>>]

PopulatedRef(u) ==
  [_id |-> u, populated |-> TRUE,
   firstName |-> users[u].firstName, lastName |-> users[u].lastName]

Inspect(ref) ==
  <<"{", "_id:", ref._id, "firstName:">> \o ref.firstName
    \o <<"lastName:">> \o ref.lastName \o <<"avatar:", "null", "}">>

toString(ref) == IF ref.populated THEN Inspect(ref) ELSE <<ref._id>>

\* `${user.firstName} ${user.lastName}`
FullName(u) == users[u].firstName \o <<" ">> \o users[u].lastName

\* key.includes('.') in MongooseMap's checkValidKey, which set() calls first
IncludesDot(key) == \E i \in DOMAIN key : key[i] = "."

-----------------------------------------------------------------------------
(* models/Conversation.js                                                  *)

Exists(c) == c \in DOMAIN conversations

\* The document a query loads: Conversation.findById(c), with or without
\* .populate('participants.userId', 'firstName lastName avatar')
Doc(c, populate) ==
  [conversations[c] EXCEPT !.participants =
     [i \in DOMAIN @ |->
        [@[i] EXCEPT !.userId = IF populate THEN PopulatedRef(@) ELSE Ref(@)]]]

\* Fault model of hasParticipant: the comparison with the caller's id dropped
HasParticipantAnyone(doc, userId) ==
  \E i \in DOMAIN doc.participants : toString(doc.participants[i].userId) # <<>>

\* conversationSchema.methods.hasParticipant
HasParticipant(doc, userId) ==
  \E i \in DOMAIN doc.participants :
    toString(doc.participants[i].userId) = toString(Ref(userId))

\* this.unreadCount.get(key) || 0
GetOrZero(unreadCount, key) ==
  IF key \in DOMAIN unreadCount THEN unreadCount[key] ELSE 0

\* Fault model of the forEach of updateLastMessage: the sender test dropped,
\* every participant's counter is incremented
RECURSIVE BumpUnreadAll(_, _, _, _)
BumpUnreadAll(unreadCount, participants, i, senderId) ==
  IF i > Len(participants)
    THEN [threw |-> FALSE, unreadCount |-> unreadCount]
    ELSE LET key == toString(participants[i].userId) IN
         IF IncludesDot(key)
           THEN [threw |-> TRUE, unreadCount |-> unreadCount]
           ELSE BumpUnreadAll(
                  (key :> (GetOrZero(unreadCount, key) + 1)) @@ unreadCount,
                  participants, i + 1, senderId)

\* The participants.forEach of updateLastMessage from participant i on:
\* [threw, unreadCount]; set() throws on a key that contains a dot.
RECURSIVE BumpUnread(_, _, _, _)
BumpUnread(unreadCount, participants, i, senderId) ==
  IF i > Len(participants)
    THEN [threw |-> FALSE, unreadCount |-> unreadCount]
    ELSE LET key == toString(participants[i].userId) IN
         IF key # toString(Ref(senderId))
           THEN IF IncludesDot(key)
                  THEN [threw |-> TRUE, unreadCount |-> unreadCount]
                  ELSE BumpUnread(
                         (key :> (GetOrZero(unreadCount, key) + 1)) @@ unreadCount,
                         participants, i + 1, senderId)
           ELSE BumpUnread(unreadCount, participants, i + 1, senderId)

\* conversationSchema.methods.updateLastMessage, up to its save():
\* [threw, doc] with doc the modified in-memory document
UpdateLastMessage(doc, content, senderId, t) ==
  LET bumped == BumpUnread(doc.unreadCount, doc.participants, 1, senderId) IN
  [threw |-> bumped.threw,
   doc |-> [doc EXCEPT
     !.lastMessage = [content |-> Substring(content, LastMessageMaxLength),
                      senderId |-> senderId,
                      timestamp |-> t],
     !.unreadCount = bumped.unreadCount]]

\* conversationSchema.methods.markAsRead, up to its save()
MarkAsRead(doc, userId) ==
  [doc EXCEPT !.unreadCount = (toString(Ref(userId)) :> 0) @@ @]

\* doc.save(): the paths the methods above modify (lastMessage, unreadCount)
\* are written to the stored record; timestamps: true sets updatedAt.
Save(convs, c, doc, t) ==
  [convs EXCEPT ![c].lastMessage = doc.lastMessage,
                ![c].unreadCount = doc.unreadCount,
                ![c].updatedAt = t]

\* conversationSchema.statics.findBetweenUsers: the ids of the matches
BetweenUsers(convs, userId1, userId2) ==
  {c \in DOMAIN convs :
     /\ \E i \in DOMAIN convs[c].participants :
          convs[c].participants[i].userId = userId1
     /\ \E i \in DOMAIN convs[c].participants :
          convs[c].participants[i].userId = userId2
     /\ convs[c].isActive}

\* findOne: the first match in natural order, 0 when there is none
FindBetweenUsers(userId1, userId2) ==
  LET found == BetweenUsers(conversations, userId1, userId2) IN
  IF found = {} THEN 0 ELSE CHOOSE c \in found : \A d \in found : c <= d

\* conversationSchema.statics.createConversation: the record it stores
NewConversation(user1, user2, serviceId, serviceTitle, t) ==
  [participants |-> <<[userId |-> user1, userName |-> FullName(user1)],
                      [userId |-> user2, userName |-> FullName(user2)]>>,
   serviceId |-> serviceId,
   serviceTitle |-> serviceTitle,
   lastMessage |-> [content |-> EmptyString, senderId |-> "none", timestamp |-> t],
   isActive |-> TRUE,
   unreadCount |-> (<<user1>> :> 0) @@ (<<user2>> :> 0),
   createdAt |-> t,
   updatedAt |-> t]

-----------------------------------------------------------------------------
(* models/Message.js                                                       *)

\* The schema's validators on content: required (after trim) and maxlength
MessageSchemaValid(content) ==
  /\ Length(Trim(content)) >= 1
  /\ Length(Trim(content)) <= ContentMaxLength

\* new Message({...}) as message.save() stores it
NewMessage(conversationId, senderId, content, messageType, t) ==
  [conversationId |-> conversationId,
   senderId |-> senderId,
   senderName |-> FullName(senderId),
   content |-> Trim(content),
   messageType |-> messageType,
   isRead |-> FALSE,
   readAt |-> NullDate,
   isEdited |-> FALSE,
   editedAt |-> NullDate,
   createdAt |-> t,
   updatedAt |-> t]

\* messageSchema.post('save'): Conversation.findByIdAndUpdate($set ...)
PostSave(convs, msg) ==
  IF msg.conversationId \in DOMAIN convs
    THEN [convs EXCEPT
           ![msg.conversationId].lastMessage =
              [content |-> msg.content, senderId |-> msg.senderId,
               timestamp |-> msg.createdAt],
           ![msg.conversationId].updatedAt = msg.createdAt]
    ELSE convs

\* Fault model of markAsRead: the flag is flipped instead of set
MessageToggleRead(msg, t) == [msg EXCEPT !.isRead = ~@, !.readAt = t]

\* messageSchema.methods.markAsRead, up to its save()
MessageMarkAsRead(msg, t) == [msg EXCEPT !.isRead = TRUE, !.readAt = t]

\* messageSchema.methods.editContent, up to its save(); the schema's
\* trim: true is a setter, applied by the assignment
MessageEditContent(msg, newContent, t) ==
  [msg EXCEPT !.content = Trim(newContent), !.isEdited = TRUE, !.editedAt = t]

\* Fault model of markConversationAsRead: the isRead: false filter dropped,
\* so that messages already read are stamped again
MarkReadAgain(msgs, conversationId, userId, t) ==
  [m \in DOMAIN msgs |->
     IF /\ msgs[m].conversationId = conversationId
        /\ msgs[m].senderId # userId
       THEN [msgs[m] EXCEPT !.isRead = TRUE, !.readAt = t]
       ELSE msgs[m]]

\* Fault model of markConversationAsRead: senderId: userId in place of
\* senderId: { $ne: userId }
MarkOwnAsRead(msgs, conversationId, userId, t) ==
  [m \in DOMAIN msgs |->
     IF /\ msgs[m].conversationId = conversationId
        /\ msgs[m].senderId = userId
        /\ msgs[m].isRead = FALSE
       THEN [msgs[m] EXCEPT !.isRead = TRUE, !.readAt = t]
       ELSE msgs[m]]

\* messageSchema.statics.markConversationAsRead (updateMany)
MarkConversationAsRead(msgs, conversationId, userId, t) ==
  [m \in DOMAIN msgs |->
     IF /\ msgs[m].conversationId = conversationId
        /\ msgs[m].senderId # userId
        /\ msgs[m].isRead = FALSE
       THEN [msgs[m] EXCEPT !.isRead = TRUE, !.readAt = t]
       ELSE msgs[m]]

\* .sort({ createdAt: -1 }) over a set of message ids: newest first, equal
\* createdAt in index (insertion) order
RECURSIVE SortNewestFirst(_, _)
SortNewestFirst(msgs, ids) ==
  IF ids = {} THEN <<>>
  ELSE LET first == CHOOSE m \in ids : \A k \in ids :
                      \/ msgs[m].createdAt > msgs[k].createdAt
                      \/ (msgs[m].createdAt = msgs[k].createdAt /\ m <= k)
       IN <<first>> \o SortNewestFirst(msgs, ids \ {first})

\* .skip(skip).limit(limit)
SkipLimit(seq, skip, limit) ==
  SubSeq(seq, skip + 1, Min(Len(seq), skip + limit))

Reverse(seq) == [i \in 1..Len(seq) |-> seq[Len(seq) + 1 - i]]

\* messageSchema.statics.getForConversation
GetForConversation(msgs, conversationId, limit, skip) ==
  SkipLimit(
    SortNewestFirst(msgs, {m \in DOMAIN msgs : msgs[m].conversationId = conversationId}),
    skip, limit)

\* The $lookup and $match stages of getUnreadCount: the messages whose
\* joined conversation lists userId, not sent by userId and unread
UnreadMatched(msgs, convs, userId) ==
  {m \in DOMAIN msgs :
     /\ \E c \in DOMAIN convs :
          /\ c = msgs[m].conversationId
          /\ \E i \in DOMAIN convs[c].participants :
               convs[c].participants[i].userId = userId
     /\ msgs[m].senderId # userId
     /\ msgs[m].isRead = FALSE}

\* { $sum: '$count' } over the groups
RECURSIVE SumCounts(_, _)
SumCounts(count, groups) ==
  IF groups = {} THEN 0
  ELSE LET g == CHOOSE x \in groups : TRUE
       IN count[g] + SumCounts(count, groups \ {g})

\* Fault model of getUnreadCount: senderId: { $ne: userId } left out of $match
GetUnreadCountWithOwn(msgs, convs, userId) ==
  LET matched == {m \in DOMAIN msgs :
                    /\ \E c \in DOMAIN convs :
                         /\ c = msgs[m].conversationId
                         /\ \E i \in DOMAIN convs[c].participants :
                              convs[c].participants[i].userId = userId
                    /\ msgs[m].isRead = FALSE}
  IN IF matched = {} THEN <<>> ELSE <<[totalUnread |-> Cardinality(matched)]>>

\* messageSchema.statics.getUnreadCount: the aggregation's result, a list
\* that is empty or holds the one total
GetUnreadCount(msgs, convs, userId) ==
  LET matched == UnreadMatched(msgs, convs, userId)
      groups == {msgs[m].conversationId : m \in matched}
      count == [g \in groups |->
                  Cardinality({m \in matched : msgs[m].conversationId = g})]
  IN IF groups = {} THEN <<>>
     ELSE <<[totalUnread |-> SumCounts(count, groups)]>>

\* messageSchema.statics.searchInConversation
SearchInConversation(msgs, conversationId, query) ==
  SkipLimit(
    SortNewestFirst(msgs,
      {m \in DOMAIN msgs : /\ msgs[m].conversationId = conversationId
                           /\ RegexMatchI(msgs[m].content, query)}),
    0, SearchInConversationLimit)

-----------------------------------------------------------------------------
(* Responses.  resp is the response of the last request handled.           *)

Response(op, user, status) ==
  [op |-> op, user |-> user, status |-> status,
   fields |-> {}, conv |-> 0, ids |-> <<>>, flags |-> <<>>, total |-> 0]

\* middleware/auth.js authenticateToken: the account must be active
Authenticated(u) == users[u].isActive

-----------------------------------------------------------------------------
(* Requests in progress.  A handler is a chain of awaited store operations;*)
(* a task is one request with the local variables its handler holds        *)
(* between two of them: `doc' the document it loaded, a conversation or    *)
(* req.user (a list of at most one), `msg' the index of the message it     *)
(* inserted, `type' the account type it asks for.                          *)
(* lastMessageWrites counts the writes of the conversation's lastMessage    *)
(* that the request has caused.                                            *)

TaskIds == 1..MaxTasks

IdleTask ==
  [pc |-> "idle", kind |-> "none", user |-> "none", participant |-> "none",
   content |-> EmptyString, conv |-> 0, doc |-> <<>>, msg |-> 0, status |-> 0,
   lastMessageWrites |-> 0, type |-> "none"]

NoTasks == [t \in TaskIds |-> IdleTask]

-----------------------------------------------------------------------------
(* Initial state: three registered accounts, two listings, no conversation.*)

\* Accounts as registration stores them (a name may hold any character)
RegisteredUsers ==
  [u \in UserIds |->
     [firstName |-> CASE u = "u1" -> <<"A", "n", "a">>
                      [] u = "u2" -> <<"J", ".", "R", ".">>
                      [] OTHER -> <<"B", "o", "b">>,
      lastName |-> CASE u = "u1" -> <<"D", "i", "o", "p">>
                     [] u = "u2" -> <<"K", "o", "n", "e">>
                     [] OTHER -> <<"S", "y">>,
      type |-> IF u = "u2" THEN "prestataire" ELSE "particulier",
      isActive |-> TRUE]]

\* Listings of the provider u2: one active, one withdrawn
Listings ==
  [s \in ServiceIds |->
     [title |-> IF s = "s1" THEN "Plomberie" ELSE "Jardinage",
      userId |-> "u2",
      isActive |-> (s = "s1")]]

Init ==
  /\ users = RegisteredUsers
  /\ services = Listings
  /\ conversations = <<>>
  /\ messages = <<>>
  /\ now = 1
  /\ resp = Response("none", "none", 0)
  /\ tasks = NoTasks

-----------------------------------------------------------------------------
(* The environment.                                                        *)

\* Date.now() / new Date() advance
Tick ==
  /\ now < MaxClock
  /\ now' = now + 1
  /\ UNCHANGED <<users, services, conversations, messages, resp, tasks>>

-----------------------------------------------------------------------------
(* routes/users.js                                                         *)

\* router.delete('/account')
DeleteAccount(u) ==
  /\ IF ~Authenticated(u)
       THEN /\ resp' = Response("deleteAccount", u, 401)
            /\ UNCHANGED <<users, services>>
       ELSE /\ users' = [users EXCEPT ![u].isActive = FALSE]
            /\ services' =
                 [s \in DOMAIN services |->
                    IF services[s].userId = u
                      THEN [services[s] EXCEPT !.isActive = FALSE]
                      ELSE services[s]]
            /\ resp' = Response("deleteAccount", u, 200)
  /\ UNCHANGED <<conversations, messages, now, tasks>>

-----------------------------------------------------------------------------
(* routes/messages.js                                                      *)

\* Fault model of the content validator: the upper limit off by one
ContentValidUpTo1001(content) ==
  /\ Length(Trim(content)) >= 1
  /\ Length(Trim(content)) <= ContentMaxLength + 1

\* body('content').trim().notEmpty().isLength({ min: 1, max: 1000 })
ContentValid(content) ==
  /\ Length(Trim(content)) >= 1
  /\ Length(Trim(content)) <= ContentMaxLength

\* body('messageType').optional().isIn([...]); "none" is an absent field
MessageTypeValid(messageType) ==
  messageType \in {"none", "text", "image", "file", "system"}

\* validationResult(req): the fields that failed messageValidation
MessageValidationErrors(content, messageType) ==
  (IF ContentValid(content) THEN {} ELSE {"content"})
    \cup (IF MessageTypeValid(messageType) THEN {} ELSE {"messageType"})

\* message.save(), its post('save') hook, then conversation.updateLastMessage:
\* the tail shared by the send-message and create-conversation handlers.
\* `doc' is the conversation document the handler holds.
SaveAndUpdate(base, u, c, doc, convs, content, messageType, cap) ==
  /\ Len(messages) < cap
  /\ IF ~MessageSchemaValid(content)
       THEN /\ conversations' = convs
            /\ messages' = messages
            /\ resp' = [base EXCEPT !.status = 500]
       ELSE LET msg == NewMessage(c, u, content, messageType, now)
                hooked == PostSave(convs, msg)
                upd == UpdateLastMessage(doc, content, u, now)
            IN /\ messages' = Append(messages, msg)
               /\ IF upd.threw
                    THEN /\ conversations' = hooked
                         /\ resp' = [base EXCEPT !.status = 500]
                    ELSE /\ conversations' = Save(hooked, c, upd.doc, now)
                         /\ resp' = [base EXCEPT
                                       !.status = 201,
                                       !.conv = IF base.op = "create" THEN c ELSE 0,
                                       !.ids = IF base.op = "send"
                                                 THEN <<Len(messages) + 1>> ELSE <<>>]

\* router.post('/conversations/:conversationId/messages')
SendMessage(u, c, rawContent, rawType, cap) ==
  LET content == Trim(rawContent)
      messageType == IF rawType = "none" THEN "text" ELSE rawType
  IN
  /\ IF ~Authenticated(u)
       THEN /\ resp' = Response("send", u, 401)
            /\ UNCHANGED <<conversations, messages>>
       ELSE IF MessageValidationErrors(rawContent, rawType) # {}
       THEN /\ resp' = [Response("send", u, 400)
                          EXCEPT !.fields = MessageValidationErrors(rawContent, rawType)]
            /\ UNCHANGED <<conversations, messages>>
       ELSE IF ~Exists(c) \/ ~HasParticipant(Doc(c, FALSE), u)
       THEN /\ resp' = Response("send", u, 404)
            /\ UNCHANGED <<conversations, messages>>
       ELSE SaveAndUpdate(Response("send", u, 0), u, c, Doc(c, FALSE),
                          conversations, content, messageType, cap)
  /\ UNCHANGED <<users, services, now, tasks>>

\* The validators of router.post('/conversations')
CreateValidationErrors(participantId, serviceId, initialMessage) ==
  (IF participantId # "none" /\ IsMongoId(participantId) THEN {} ELSE {"participantId"})
    \cup (IF serviceId = "none" \/ IsMongoId(serviceId) THEN {} ELSE {"serviceId"})
    \cup (IF ContentValid(initialMessage) THEN {} ELSE {"initialMessage"})

\* participantId === req.user._id.toString()
IsSelf(participantId, u) == <<participantId>> = toString(Ref(u))

\* Fault model of the participant check: isActive is not looked at
OtherUserUnknown(otherUser) == otherUser \notin UserIds

\* !otherUser || !otherUser.isActive, otherUser the result of User.findById
OtherUserMissing(otherUser) ==
  otherUser \notin UserIds \/ ~users[otherUser].isActive

\* router.post('/conversations')
CreateConversation(u, participantId, serviceId, rawInitial, cap) ==
  LET initialMessage == Trim(rawInitial)
      otherUser == CastObjectId(participantId)
      found == FindBetweenUsers(u, otherUser)
      base == Response("create", u, 0)
  IN
  /\ IF ~Authenticated(u)
       THEN /\ resp' = [base EXCEPT !.status = 401]
            /\ UNCHANGED <<conversations, messages>>
       ELSE IF CreateValidationErrors(participantId, serviceId, rawInitial) # {}
       THEN /\ resp' = [base EXCEPT
                          !.status = 400,
                          !.fields = CreateValidationErrors(participantId, serviceId, rawInitial)]
            /\ UNCHANGED <<conversations, messages>>
       ELSE IF IsSelf(participantId, u)
       THEN /\ resp' = [base EXCEPT !.status = 400]
            /\ UNCHANGED <<conversations, messages>>
       ELSE IF OtherUserMissing(otherUser)
       THEN /\ resp' = [base EXCEPT !.status = 404]
            /\ UNCHANGED <<conversations, messages>>
       ELSE IF found # 0
       THEN \* an existing conversation, loaded populated by findBetweenUsers
            SaveAndUpdate(base, u, found, Doc(found, TRUE), conversations,
                          initialMessage, "text", cap)
       ELSE IF serviceId # "none" /\ (serviceId \notin ServiceIds \/ ~services[serviceId].isActive)
       THEN /\ resp' = [base EXCEPT !.status = 404]
            /\ UNCHANGED <<conversations, messages>>
       ELSE LET created == NewConversation(
                             u, otherUser, serviceId,
                             IF serviceId = "none" THEN "none" ELSE services[serviceId].title,
                             now)
                convs == Append(conversations, created)
                c == Len(convs)
                doc == [created EXCEPT !.participants =
                          [i \in DOMAIN @ |-> [@[i] EXCEPT !.userId = Ref(@)]]]
            IN SaveAndUpdate(base, u, c, doc, convs, initialMessage, "text", cap)
  /\ UNCHANGED <<users, services, now, tasks>>

\* router.put('/conversations/:conversationId/read')
MarkConversationRead(u, c) ==
  /\ IF ~Authenticated(u)
       THEN /\ resp' = Response("read", u, 401)
            /\ UNCHANGED <<conversations, messages>>
       ELSE IF ~Exists(c) \/ ~HasParticipant(Doc(c, FALSE), u)
       THEN /\ resp' = Response("read", u, 404)
            /\ UNCHANGED <<conversations, messages>>
       ELSE /\ conversations' = Save(conversations, c, MarkAsRead(Doc(c, FALSE), u), now)
            /\ messages' = MarkConversationAsRead(messages, c, u, now)
            /\ resp' = Response("read", u, 200)
  /\ UNCHANGED <<users, services, now, tasks>>

\* router.get('/conversations/:conversationId')
GetConversation(u, c) ==
  /\ IF ~Authenticated(u)
       THEN /\ resp' = Response("open", u, 401)
            /\ UNCHANGED conversations
       ELSE IF ~Exists(c) \/ ~conversations[c].isActive
       THEN /\ resp' = Response("open", u, 404)
            /\ UNCHANGED conversations
       ELSE IF ~HasParticipant(Doc(c, TRUE), u)
       THEN /\ resp' = Response("open", u, 403)
            /\ UNCHANGED conversations
       ELSE /\ conversations' = Save(conversations, c, MarkAsRead(Doc(c, TRUE), u), now)
            /\ resp' = Response("open", u, 200)
  /\ UNCHANGED <<users, services, messages, now, tasks>>

\* query('page').optional().isInt({ min: 1 }), query('limit').optional()
\* .isInt({ min: 1, max: 100 }); 0 is an absent parameter
ListValidationErrors(page, limit) ==
  (IF page = 0 \/ page >= 1 THEN {} ELSE {"page"})
    \cup (IF limit = 0 \/ (limit >= 1 /\ limit <= 100) THEN {} ELSE {"limit"})

\* Fault model of the list route: the messages marked before they are fetched
GetMessagesMarkFirst(u, c, rawPage, rawLimit) ==
  LET page == IF rawPage = 0 THEN 1 ELSE rawPage
      limit == IF rawLimit = 0 THEN 50 ELSE rawLimit
      skip == (page - 1) * limit
      marked == MarkConversationAsRead(messages, c, u, now)
      found == GetForConversation(marked, c, limit, skip)
      total == Cardinality({m \in DOMAIN messages : messages[m].conversationId = c})
  IN
  /\ IF ~Authenticated(u)
       THEN /\ resp' = Response("list", u, 401)
            /\ UNCHANGED messages
       ELSE IF ListValidationErrors(rawPage, rawLimit) # {}
       THEN /\ resp' = [Response("list", u, 400)
                          EXCEPT !.fields = ListValidationErrors(rawPage, rawLimit)]
            /\ UNCHANGED messages
       ELSE IF ~Exists(c) \/ ~HasParticipant(Doc(c, FALSE), u)
       THEN /\ resp' = Response("list", u, 404)
            /\ UNCHANGED messages
       ELSE /\ messages' = marked
            /\ resp' = [Response("list", u, 200) EXCEPT
                          !.ids = Reverse(found),
                          !.flags = [i \in 1..Len(found) |-> marked[Reverse(found)[i]].isRead],
                          !.total = total]
  /\ UNCHANGED <<users, services, conversations, now, tasks>>

\* router.get('/conversations/:conversationId/messages')
GetMessages(u, c, rawPage, rawLimit) ==
  LET page == IF rawPage = 0 THEN 1 ELSE rawPage
      limit == IF rawLimit = 0 THEN 50 ELSE rawLimit
      skip == (page - 1) * limit
      found == GetForConversation(messages, c, limit, skip)
      total == Cardinality({m \in DOMAIN messages : messages[m].conversationId = c})
  IN
  /\ IF ~Authenticated(u)
       THEN /\ resp' = Response("list", u, 401)
            /\ UNCHANGED messages
       ELSE IF ListValidationErrors(rawPage, rawLimit) # {}
       THEN /\ resp' = [Response("list", u, 400)
                          EXCEPT !.fields = ListValidationErrors(rawPage, rawLimit)]
            /\ UNCHANGED messages
       ELSE IF ~Exists(c) \/ ~HasParticipant(Doc(c, FALSE), u)
       THEN /\ resp' = Response("list", u, 404)
            /\ UNCHANGED messages
       ELSE /\ messages' = MarkConversationAsRead(messages, c, u, now)
            /\ resp' = [Response("list", u, 200) EXCEPT
                          !.ids = Reverse(found),
                          !.flags = [i \in 1..Len(found) |-> messages[Reverse(found)[i]].isRead],
                          !.total = total]
  /\ UNCHANGED <<users, services, conversations, now, tasks>>

\* Fault model of the all-conversations branch: the participant filter
\* dropped from the query
ActiveConversations(u) ==
  {c \in DOMAIN conversations : conversations[c].isActive}

\* router.get('/unread-count')
UnreadCount(u) ==
  /\ IF ~Authenticated(u)
       THEN resp' = Response("unread", u, 401)
       ELSE LET result == GetUnreadCount(messages, conversations, u) IN
            resp' = [Response("unread", u, 200) EXCEPT
                       !.total = IF Len(result) > 0 THEN result[1].totalUnread ELSE 0]
  /\ UNCHANGED <<users, services, conversations, messages, now, tasks>>

\* The conversations the all-conversations branch of the search reads
UserConversations(u) ==
  {c \in DOMAIN conversations :
     /\ \E i \in DOMAIN conversations[c].participants :
          conversations[c].participants[i].userId = u
     /\ conversations[c].isActive}

\* Message.find({conversationId: {$in: ids}, content: {$regex: q, $options: 'i'}})
\*   .sort({ createdAt: -1 }).limit(20)
SearchAll(msgs, conversationIds, query) ==
  SkipLimit(
    SortNewestFirst(msgs,
      {m \in DOMAIN msgs : /\ msgs[m].conversationId \in conversationIds
                           /\ RegexMatchI(msgs[m].content, query)}),
    0, SearchAllLimit)

\* router.get('/search'); c = 0 is a request without conversationId
SearchMessages(u, q, c) ==
  /\ IF ~Authenticated(u)
       THEN resp' = Response("search", u, 401)
       ELSE IF Len(q) = 0
       THEN resp' = [Response("search", u, 400) EXCEPT !.fields = {"q"}]
       ELSE IF c # 0
       THEN IF ~Exists(c) \/ ~HasParticipant(Doc(c, FALSE), u)
              THEN resp' = Response("search", u, 404)
              ELSE resp' = [Response("search", u, 200)
                              EXCEPT !.ids = SearchInConversation(messages, c, q)]
       ELSE resp' = [Response("search", u, 200)
                       EXCEPT !.ids = SearchAll(messages, UserConversations(u), q)]
  /\ UNCHANGED <<users, services, conversations, messages, now, tasks>>

-----------------------------------------------------------------------------
(* The document methods of a stored message.  No route calls them; they    *)
(* are the model's own operations on one message.  resp records the        *)
(* outcome of the promise: 200 resolved, 400 rejected by the validators.   *)

\* this.save() of a loaded message: validation, the write with
\* timestamps: true, then the post('save') hook, which runs on every save
SaveMessage(op, m, doc) ==
  LET saved == [doc EXCEPT !.updatedAt = now] IN
  /\ IF MessageSchemaValid(doc.content)
       THEN /\ messages' = [messages EXCEPT ![m] = saved]
            /\ conversations' = PostSave(conversations, saved)
            /\ resp' = [Response(op, "none", 200) EXCEPT !.ids = <<m>>]
       ELSE /\ UNCHANGED <<conversations, messages>>
            /\ resp' = [Response(op, "none", 400) EXCEPT !.ids = <<m>>]
  /\ UNCHANGED <<users, services, now, tasks>>

\* message.markAsRead()
MarkMessageRead(m) ==
  SaveMessage("markAsRead", m, MessageMarkAsRead(messages[m], now))

\* message.editContent(newContent)
EditMessage(m, newContent) ==
  SaveMessage("editContent", m, MessageEditContent(messages[m], newContent, now))

-----------------------------------------------------------------------------
(* The same handlers one awaited store operation at a time.  Node runs the *)
(* code between two awaits without interruption and may run any other      *)
(* request while one is awaited, so each step below is atomic and the      *)
(* steps of different requests interleave freely.  A request enters here   *)
(* once it has passed authentication and validation, which touch no        *)
(* conversation or message.  `ok' is the outcome of the store write.       *)

\* doc.save() of a document loaded earlier: $set of the modified paths only
\* (lastMessage, the unreadCount keys whose value changed) and of updatedAt;
\* a Map entry is not versioned, so the write is not conditional.
SaveModified(convs, c, loaded, doc, t) ==
  LET changed == {k \in DOMAIN doc.unreadCount :
                    \/ k \notin DOMAIN loaded.unreadCount
                    \/ doc.unreadCount[k] # loaded.unreadCount[k]}
      stored == convs[c].unreadCount
  IN [convs EXCEPT
        ![c].lastMessage = doc.lastMessage,
        ![c].unreadCount = [k \in DOMAIN stored \cup changed |->
                              IF k \in changed THEN doc.unreadCount[k] ELSE stored[k]],
        ![c].updatedAt = t]

\* Requests are numbered in the order they arrive.
Arrives(t) ==
  /\ tasks[t].pc = "idle"
  /\ \A s \in TaskIds : s < t => tasks[s].pc # "idle"

\* send route: await Conversation.findById and the hasParticipant test
BeginSend(t, u, c, rawContent) ==
  /\ Arrives(t)
  /\ Authenticated(u)
  /\ MessageValidationErrors(rawContent, "none") = {}
  /\ tasks' = [tasks EXCEPT ![t] =
       IF ~Exists(c) \/ ~HasParticipant(Doc(c, FALSE), u)
         THEN [IdleTask EXCEPT !.pc = "done", !.kind = "send", !.user = u,
                               !.status = 404]
         ELSE [IdleTask EXCEPT !.pc = "loaded", !.kind = "send", !.user = u,
                               !.content = Trim(rawContent), !.conv = c,
                               !.doc = <<Doc(c, FALSE)>>]]
  /\ UNCHANGED <<users, services, conversations, messages, now, resp>>

\* create route without serviceId: await User.findById and
\* await Conversation.findBetweenUsers
BeginCreate(t, u, participantId, rawInitial) ==
  LET otherUser == CastObjectId(participantId)
      found == FindBetweenUsers(u, otherUser)
  IN
  /\ Arrives(t)
  /\ Authenticated(u)
  /\ CreateValidationErrors(participantId, "none", rawInitial) = {}
  /\ ~IsSelf(participantId, u)
  /\ ~OtherUserMissing(otherUser)
  /\ tasks' = [tasks EXCEPT ![t] =
       [IdleTask EXCEPT !.pc = IF found # 0 THEN "loaded" ELSE "absent",
                        !.kind = "create", !.user = u,
                        !.participant = otherUser,
                        !.content = Trim(rawInitial), !.conv = found,
                        !.doc = IF found # 0 THEN <<Doc(found, TRUE)>> ELSE <<>>]]
  /\ UNCHANGED <<users, services, conversations, messages, now, resp>>

\* create route: await Conversation.createConversation
CreateDocument(t) ==
  LET created == NewConversation(tasks[t].user, tasks[t].participant,
                                 "none", "none", now)
      doc == [created EXCEPT !.participants =
                [i \in DOMAIN @ |-> [@[i] EXCEPT !.userId = Ref(@)]]]
  IN
  /\ tasks[t].pc = "absent"
  /\ conversations' = Append(conversations, created)
  /\ tasks' = [tasks EXCEPT ![t].pc = "loaded",
                            ![t].conv = Len(conversations) + 1,
                            ![t].doc = <<doc>>]
  /\ UNCHANGED <<users, services, messages, now, resp>>

\* await message.save(), the insert: a failure goes to the catch block
InsertMessage(t, ok) ==
  /\ tasks[t].pc = "loaded"
  /\ IF ok /\ MessageSchemaValid(tasks[t].content)
       THEN /\ messages' = Append(messages,
                 NewMessage(tasks[t].conv, tasks[t].user, tasks[t].content,
                            "text", now))
            /\ tasks' = [tasks EXCEPT ![t].pc = "inserted",
                                      ![t].msg = Len(messages) + 1]
       ELSE /\ messages' = messages
            /\ tasks' = [tasks EXCEPT ![t].pc = "done", ![t].status = 500]
  /\ UNCHANGED <<users, services, conversations, now, resp>>

\* await message.save(), the post('save') hook: its error is caught and logged
RunPostSave(t, ok) ==
  /\ tasks[t].pc = "inserted"
  /\ conversations' = IF ok THEN PostSave(conversations, messages[tasks[t].msg])
                            ELSE conversations
  /\ tasks' = [tasks EXCEPT
       ![t].pc = "hooked",
       ![t].lastMessageWrites = IF ok THEN @ + 1 ELSE @]
  /\ UNCHANGED <<users, services, messages, now, resp>>

\* await conversation.updateLastMessage(content, req.user._id), on the
\* document the request loaded
UpdateConversation(t, ok) ==
  LET loaded == tasks[t].doc[1]
      upd == UpdateLastMessage(loaded, tasks[t].content, tasks[t].user, now)
  IN
  /\ tasks[t].pc = "hooked"
  /\ IF ok /\ ~upd.threw
       THEN /\ conversations' = SaveModified(conversations, tasks[t].conv,
                                             loaded, upd.doc, now)
            /\ tasks' = [tasks EXCEPT ![t].pc = "done", ![t].status = 201,
                                      ![t].lastMessageWrites = @ + 1]
       ELSE /\ conversations' = conversations
            /\ tasks' = [tasks EXCEPT ![t].pc = "done", ![t].status = 500]
  /\ UNCHANGED <<users, services, messages, now, resp>>

-----------------------------------------------------------------------------
(* The system: any authenticated principal may issue any request.          *)

\* The requests issued.  Every principal addresses every stored conversation;
\* conversations are started between u1 and u3, from either side, and by u1
\* with the provider u2 about a listing; the requests that fail before any
\* record is read (validation) or that name an absent record are issued by
\* u1.  The clock of this specification stands still: its requests fall
\* within one clock reading.
Absent == Len(conversations) + 1

SendRequests ==
  {<<u, c, BonjourPadded, "none">> : u \in UserIds, c \in DOMAIN conversations}
    \cup {<<"u1", Absent, BonjourPadded, "none">>, <<"u1", 1, Long1001, "none">>,
          <<"u1", 1, Blank, "none">>, <<"u1", 1, BonjourPadded, "video">>}

CreateRequests ==
  {<<"u1", "u3", "none", BonjourPadded>>, <<"u3", "u1", "none", BonjourPadded>>}
    \cup {<<"u1", "u1", "none", BonjourPadded>>,
          <<"u1", "ghost", "none", BonjourPadded>>,
          <<"u1", "bad-id", "none", BonjourPadded>>,
          <<"u1", "u3", "none", Blank>>,
          <<"u1", "u3", "none", Long1001>>,
          <<"u1", "u2", "s1", BonjourPadded>>,
          <<"u1", "u2", "s2", BonjourPadded>>}

ConversationRequests ==
  {<<u, c>> : u \in UserIds, c \in DOMAIN conversations} \cup {<<"u1", Absent>>}

ListRequests ==
  {<<u, c, 0, 0>> : u \in UserIds, c \in DOMAIN conversations}
    \cup {<<"u1", c, 2, 1>> : c \in DOMAIN conversations}
    \cup {<<"u1", Absent, 0, 0>>, <<"u1", 1, 0, 101>>}

Next ==
  \/ DeleteAccount("u3")
  \/ \E r \in SendRequests : SendMessage(r[1], r[2], r[3], r[4], MaxMessages)
  \/ \E r \in CreateRequests : CreateConversation(r[1], r[2], r[3], r[4], MaxMessages)
  \/ \E r \in ConversationRequests : MarkConversationRead(r[1], r[2])
  \/ \E r \in ConversationRequests : GetConversation(r[1], r[2])
  \/ \E r \in ListRequests : GetMessages(r[1], r[2], r[3], r[4])
  \/ \E u \in UserIds : UnreadCount(u)

Spec == Init /\ [][Next]_vars

-----------------------------------------------------------------------------
(* Message contents: one conversation, contents of every length class.     *)

ContentInputs == {BonjourPadded, Long101, Long1000, Long1001, Blank, EmptyString}

NextContent ==
  \/ \E content \in ContentInputs :
       CreateConversation("u1", "u3", "none", content, MaxMessages)
  \/ \E u \in UserIds, c \in DOMAIN conversations, content \in ContentInputs :
       SendMessage(u, c, content, "none", MaxMessages)

SpecContent == Init /\ [][NextContent]_vars

-----------------------------------------------------------------------------
(* Search: u1 keeps writing to its conversation with u3 while the clock     *)
(* advances.  The initial state is the one Spec reaches when u1 has started*)
(* a conversation with u3 ("Merci") and one with u2 ("Bonjour").           *)

QueryBon == <<"b", "o", "n">>

\* The stored conversation after the handler created it and sent `content'
Started(user1, user2, content, t) ==
  LET created == NewConversation(user1, user2, "none", "none", t)
      doc == [created EXCEPT !.participants =
                [i \in DOMAIN @ |-> [@[i] EXCEPT !.userId = Ref(@)]]]
      msg == NewMessage(1, user1, content, "text", t)
  IN Save(PostSave(<<created>>, msg), 1,
          UpdateLastMessage(doc, Trim(content), user1, t).doc, t)[1]

InitSearch ==
  /\ users = RegisteredUsers
  /\ services = Listings
  /\ conversations = <<Started("u1", "u3", Merci, 1), Started("u1", "u2", BonjourPadded, 1)>>
  /\ messages = <<NewMessage(1, "u1", Merci, "text", 1),
                  NewMessage(2, "u1", BonjourPadded, "text", 1)>>
  /\ now = 1
  /\ resp = [Response("create", "u1", 201) EXCEPT !.conv = 2]
  /\ tasks = NoTasks

SearchRequests ==
  {<<"u1", QueryBon, 1>>, <<"u1", QueryBon, 0>>, <<"u2", QueryBon, 1>>,
   <<"u1", <<>>, 1>>, <<"u2", QueryBon, 0>>, <<"u2", QueryBon, 2>>,
   <<"u3", QueryBon, 0>>}

NextSearch ==
  \/ Tick
  \/ SendMessage("u1", 1, BonUpper, "none", MaxSearchMessages)
  \/ \E r \in SearchRequests : SearchMessages(r[1], r[2], r[3])

SpecSearch == InitSearch /\ [][NextSearch]_vars

-----------------------------------------------------------------------------
(* Reading over time: conversations are started, written to, listed and    *)
(* marked read by their participants and by an outsider while the clock    *)
(* advances.                                                               *)

NextTimed ==
  \/ Tick
  \/ CreateConversation("u1", "u3", "none", BonjourPadded, MaxMessages)
  \/ CreateConversation("u1", "u2", "s1", BonjourPadded, MaxMessages)
  \/ \E u \in {"u1", "u3"}, c \in DOMAIN conversations :
       SendMessage(u, c, BonjourPadded, "none", MaxMessages)
  \/ \E u \in {"u1", "u3"}, c \in DOMAIN conversations :
       MarkConversationRead(u, c)
  \/ \E u \in {"u1", "u3"}, c \in DOMAIN conversations :
       GetMessages(u, c, 0, 0)

SpecTimed == Init /\ [][NextTimed]_vars

-----------------------------------------------------------------------------
(* routes/services.js and routes/users.js, one awaited store operation at  *)
(* a time: posting a listing, changing the account type, deleting the      *)
(* account.  authenticateToken loads req.user, which the handler keeps.    *)

\* The ids the store gives to new listings, one per request
NewServiceIds == <<"s3", "s4", "s5">>

\* Service.updateMany({ userId }, { isActive: false })
DisableServicesOf(svcs, u) ==
  [s \in DOMAIN svcs |->
     IF svcs[s].userId = u THEN [svcs[s] EXCEPT !.isActive = FALSE] ELSE svcs[s]]

\* router.post('/') of the services: authenticateToken, then
\* requireUserType('prestataire') on req.user
BeginCreateService(t, u) ==
  /\ Arrives(t)
  /\ Authenticated(u)
  /\ tasks' = [tasks EXCEPT ![t] =
       IF users[u].type # "prestataire"
         THEN [IdleTask EXCEPT !.pc = "done", !.kind = "service", !.user = u,
                               !.status = 403]
         ELSE [IdleTask EXCEPT !.pc = "authorized", !.kind = "service",
                               !.user = u, !.doc = <<users[u]>>]]
  /\ UNCHANGED <<users, services, conversations, messages, now, resp>>

\* await service.save() with userType: req.user.type; the pre('save') hook
\* refuses a new listing whose userType is not 'prestataire'
InsertService(t) ==
  LET reqUser == tasks[t].doc[1] IN
  /\ tasks[t].pc = "authorized"
  /\ t \in DOMAIN NewServiceIds
  /\ IF reqUser.type = "prestataire"
       THEN /\ services' = (NewServiceIds[t] :>
                               [title |-> "Jardinage", userId |-> tasks[t].user,
                                isActive |-> TRUE]) @@ services
            /\ tasks' = [tasks EXCEPT ![t].pc = "done", ![t].status = 201]
       ELSE /\ services' = services
            /\ tasks' = [tasks EXCEPT ![t].pc = "done", ![t].status = 500]
  /\ UNCHANGED <<users, conversations, messages, now, resp>>

\* router.put('/profile') with a type in the body: authenticateToken
BeginProfile(t, u, type) ==
  /\ Arrives(t)
  /\ Authenticated(u)
  /\ tasks' = [tasks EXCEPT ![t] =
       [IdleTask EXCEPT !.pc = "authenticated", !.kind = "profile", !.user = u,
                        !.type = type, !.doc = <<users[u]>>]]
  /\ UNCHANGED <<users, services, conversations, messages, now, resp>>

\* await User.findByIdAndUpdate(userId, updateData)
UpdateProfile(t) ==
  /\ tasks[t].pc = "authenticated"
  /\ tasks[t].kind = "profile"
  /\ users' = [users EXCEPT ![tasks[t].user].type = tasks[t].type]
  /\ tasks' = [tasks EXCEPT ![t].pc = "updated"]
  /\ UNCHANGED <<services, conversations, messages, now, resp>>

\* if (type === 'particulier' && req.user.type === 'prestataire')
\*   await Service.updateMany(...)
ProfileDisableServices(t) ==
  /\ tasks[t].pc = "updated"
  /\ tasks[t].kind = "profile"
  /\ services' = IF tasks[t].type = "particulier"
                     /\ tasks[t].doc[1].type = "prestataire"
                   THEN DisableServicesOf(services, tasks[t].user)
                   ELSE services
  /\ tasks' = [tasks EXCEPT ![t].pc = "done", ![t].status = 200]
  /\ UNCHANGED <<users, conversations, messages, now, resp>>

\* router.delete('/account'): authenticateToken
BeginDeleteAccount(t, u) ==
  /\ Arrives(t)
  /\ Authenticated(u)
  /\ tasks' = [tasks EXCEPT ![t] =
       [IdleTask EXCEPT !.pc = "authenticated", !.kind = "delete", !.user = u,
                        !.doc = <<users[u]>>]]
  /\ UNCHANGED <<users, services, conversations, messages, now, resp>>

\* await User.findByIdAndUpdate(userId, { isActive: false })
DeactivateUser(t) ==
  /\ tasks[t].pc = "authenticated"
  /\ tasks[t].kind = "delete"
  /\ users' = [users EXCEPT ![tasks[t].user].isActive = FALSE]
  /\ tasks' = [tasks EXCEPT ![t].pc = "updated"]
  /\ UNCHANGED <<services, conversations, messages, now, resp>>

\* await Service.updateMany({ userId }, { isActive: false })
AccountDisableServices(t) ==
  /\ tasks[t].pc = "updated"
  /\ tasks[t].kind = "delete"
  /\ services' = DisableServicesOf(services, tasks[t].user)
  /\ tasks' = [tasks EXCEPT ![t].pc = "done", ![t].status = 200]
  /\ UNCHANGED <<users, conversations, messages, now, resp>>

NextServices ==
  \/ \E t \in TaskIds, u \in UserIds : BeginCreateService(t, u)
  \/ \E t \in TaskIds : InsertService(t)
  \/ \E t \in TaskIds, u \in {"u1", "u2"},
         type \in {"particulier", "prestataire"} : BeginProfile(t, u, type)
  \/ \E t \in TaskIds : UpdateProfile(t)
  \/ \E t \in TaskIds : ProfileDisableServices(t)
  \/ \E t \in TaskIds : BeginDeleteAccount(t, "u2")
  \/ \E t \in TaskIds : DeactivateUser(t)
  \/ \E t \in TaskIds : AccountDisableServices(t)

SpecServices == Init /\ [][NextServices]_vars

-----------------------------------------------------------------------------
(* Concurrent requests: u1 and u3 already converse; u1 sends there, and u1 *)
(* and u2 each ask for the conversation between them, every request        *)
(* advancing one store operation at a time.                                *)

StartedConversations == <<Started("u1", "u3", Merci, 1)>>
StartedMessages == <<NewMessage(1, "u1", Merci, "text", 1)>>

InitConcurrent ==
  /\ users = RegisteredUsers
  /\ services = Listings
  /\ conversations = StartedConversations
  /\ messages = StartedMessages
  /\ now = 1
  /\ resp = [Response("create", "u1", 201) EXCEPT !.conv = 1]
  /\ tasks = NoTasks

NextConcurrent ==
  \/ Tick
  \/ \E t \in TaskIds : BeginSend(t, "u1", 1, Bonjour)
  \/ \E t \in TaskIds : BeginSend(t, "u1", 1, Long101)
  \/ \E t \in TaskIds : BeginCreate(t, "u1", "u2", Bonjour)
  \/ \E t \in TaskIds : BeginCreate(t, "u2", "u1", Bonjour)
  \/ \E t \in TaskIds : BeginCreate(t, "u2", "U2", Bonjour)
  \/ \E t \in TaskIds : CreateDocument(t)
  \/ \E t \in TaskIds, ok \in BOOLEAN : InsertMessage(t, ok)
  \/ \E t \in TaskIds, ok \in BOOLEAN : RunPostSave(t, ok)
  \/ \E t \in TaskIds, ok \in BOOLEAN : UpdateConversation(t, ok)

SpecConcurrent == InitConcurrent /\ [][NextConcurrent]_vars

-----------------------------------------------------------------------------
(* The life of a message: in a started conversation, messages are sent,    *)
(* marked read one by one or all at once, and edited, while the clock      *)
(* advances.                                                               *)

NextMessage ==
  \/ Tick
  \/ SendMessage("u3", 1, Bonjour, "none", MaxMessages)
  \/ MarkConversationRead("u1", 1)
  \/ \E m \in DOMAIN messages : MarkMessageRead(m)
  \/ \E m \in DOMAIN messages, newContent \in {Merci, Blank} :
       EditMessage(m, newContent)

SpecMessage == InitConcurrent /\ [][NextMessage]_vars

-----------------------------------------------------------------------------
(* A deactivated conversation.  The schema stores isActive and the queries *)
(* findBetweenUsers, getForUser and the open route test it; no route of    *)
(* this repository clears it, so the store starts with the conversation of *)
(* u1 and u3 already deactivated, as an administrator leaves it.           *)

InitInactive ==
  /\ users = RegisteredUsers
  /\ services = Listings
  /\ conversations = [StartedConversations EXCEPT ![1].isActive = FALSE]
  /\ messages = StartedMessages
  /\ now = 1
  /\ resp = Response("none", "none", 0)
  /\ tasks = NoTasks

NextInactive ==
  \/ Tick
  \/ \E u \in UserIds : SendMessage(u, 1, BonjourPadded, "none", MaxMessages)
  \/ \E u \in UserIds : MarkConversationRead(u, 1)
  \/ \E u \in UserIds : GetMessages(u, 1, 0, 0)
  \/ \E u \in UserIds : GetConversation(u, 1)

SpecInactive == InitInactive /\ [][NextInactive]_vars

-----------------------------------------------------------------------------
(* Properties.                                                             *)

\* The ids of the participants of stored conversation c
Participants(convs, c) ==
  {convs[c].participants[i].userId : i \in DOMAIN convs[c].participants}

\* A user's unread counter as the list route reads it:
\* conv.unreadCount.get(req.user._id.toString()) || 0
UnreadOf(convs, c, u) == GetOrZero(convs[c].unreadCount, toString(Ref(u)))

\* The error kind a response status stands for
ErrorKind(status) ==
  CASE status = 400 -> "ValidationError"
    [] status = 401 -> "AuthenticationError"
    [] status = 403 -> "ForbiddenError"
    [] status = 404 -> "NotFoundError"
    [] status = 409 -> "ConflictError"
    [] status = 500 -> "InternalError"
    [] OTHER -> "none"

\* C1: every successful send by a participant S of a two-party conversation,
\* through the send-message route or as the initial message of a
\* create-conversation request that reuses the conversation, leaves the
\* recipient's unread counter at its previous value plus 1 and the sender's
\* counter unchanged.
C1_SendIncrementsRecipient ==
  [][\A c \in DOMAIN conversations :
       \A S \in Participants(conversations, c) :
         \A R \in Participants(conversations, c) \ {S} :
           /\ resp'.status = 201
           /\ \/ \E r \in SendRequests :
                   /\ r[1] = S
                   /\ r[2] = c
                   /\ SendMessage(r[1], r[2], r[3], r[4], MaxMessages)
              \/ \E r \in CreateRequests :
                   /\ r[1] = S
                   /\ r[2] = R
                   /\ FindBetweenUsers(S, R) = c
                   /\ CreateConversation(r[1], r[2], r[3], r[4], MaxMessages)
           => /\ UnreadOf(conversations', c, R) = UnreadOf(conversations, c, R) + 1
              /\ UnreadOf(conversations', c, S) = UnreadOf(conversations, c, S)]_vars

\* C2: when markConversationRead(u, c) completes for a participant u of c,
\* the unread counter of u in c is 0 and no message of c sent by the other
\* participant is unread.
C2_MarkReadClears ==
  [][resp'.op = "read" => \A r \in ConversationRequests :
       /\ Authenticated(r[1])
       /\ Exists(r[2])
       /\ r[1] \in Participants(conversations, r[2])
       /\ MarkConversationRead(r[1], r[2])
       => /\ resp'.status = 200
          /\ UnreadOf(conversations', r[2], r[1]) = 0
          /\ \A m \in DOMAIN messages' :
               (messages'[m].conversationId = r[2] /\ messages'[m].senderId # r[1])
                 => messages'[m].isRead]_vars

\* C2 witness: the recipient of the only message has marked the conversation
\* read; its counter, 1 after the send, is 0 and the message is read.
C2_Witness ==
  /\ Len(conversations) = 1
  /\ Len(messages) = 1
  /\ resp.op = "read"
  /\ resp.status = 200
  /\ resp.user = conversations[1].participants[2].userId
  /\ messages[1].senderId = conversations[1].participants[1].userId
  /\ messages[1].isRead
  /\ UnreadOf(conversations, 1, resp.user) = 0

\* C3: a create-conversation call that directly follows a successful one for
\* the same pair of distinct active users, in either order, yields the same
\* conversation id, and exactly one active conversation of the pair exists
\* afterwards.
C3_GetOrCreateIdempotent ==
  [][\A r \in CreateRequests :
       /\ resp.op = "create"
       /\ resp.status = 201
       /\ resp.user \in {r[1], r[2]}
       /\ r[1] # r[2]
       /\ r[2] \in UserIds
       /\ Authenticated(r[1])
       /\ users[r[2]].isActive
       /\ resp.conv \in BetweenUsers(conversations, r[1], r[2])
       /\ CreateValidationErrors(r[2], r[3], r[4]) = {}
       /\ CreateConversation(r[1], r[2], r[3], r[4], MaxMessages)
       => /\ resp'.status = 201
          /\ resp'.conv = resp.conv
          /\ Cardinality(BetweenUsers(conversations', r[1], r[2])) = 1]_vars

\* C4: every stored message has a trimmed content of 1 to 1000 characters,
\* and a send whose content is empty after trimming or longer than 1000
\* characters is rejected with a ValidationError that names the content
\* field, stores no message and changes no conversation.
C4_ContentBounds ==
  [][/\ \A m \in DOMAIN messages' :
          /\ Length(Trim(messages'[m].content)) >= 1
          /\ Length(Trim(messages'[m].content)) <= 1000
     /\ resp'.op = "send" => \A u \in UserIds, c \in DOMAIN conversations, content \in ContentInputs :
          /\ Authenticated(u)
          /\ (Length(Trim(content)) = 0 \/ Length(Trim(content)) > 1000)
          /\ SendMessage(u, c, content, "none", MaxMessages)
          => /\ ErrorKind(resp'.status) = "ValidationError"
             /\ "content" \in resp'.fields
             /\ messages' = messages
             /\ conversations' = conversations]_vars

\* C4 witness: a message of exactly 1000 characters is stored and the last
\* send was rejected naming the content field.
C4_Witness ==
  /\ \E m \in DOMAIN messages : Length(messages[m].content) = 1000
  /\ resp.op = "send"
  /\ resp.status = 400
  /\ "content" \in resp.fields

\* C5: when A starts a conversation with an active user B and none exists
\* between them, exactly one conversation and one message are created, and
\* on return lastMessage.content is the message content ("Bonjour"),
\* lastMessage.senderId is A, unreadCount[B] = 1 and unreadCount[A] = 0.
C5_NewConversation ==
  [][resp'.op = "create" => \A r \in CreateRequests :
       /\ r[1] # r[2]
       /\ r[2] \in UserIds
       /\ Authenticated(r[1])
       /\ users[r[2]].isActive
       /\ BetweenUsers(conversations, r[1], r[2]) = {}
       /\ CreateValidationErrors(r[2], r[3], r[4]) = {}
       /\ (r[3] = "none" \/ (r[3] \in ServiceIds /\ services[r[3]].isActive))
       /\ CreateConversation(r[1], r[2], r[3], r[4], MaxMessages)
       => LET c == Len(conversations')
              m == Len(messages')
          IN /\ resp'.status = 201
             /\ c = Len(conversations) + 1
             /\ m = Len(messages) + 1
             /\ SubSeq(conversations', 1, c - 1) = conversations
             /\ SubSeq(messages', 1, m - 1) = messages
             /\ Participants(conversations', c) = {r[1], r[2]}
             /\ messages'[m].conversationId = c
             /\ messages'[m].senderId = r[1]
             /\ messages'[m].content = Bonjour
             /\ conversations'[c].lastMessage.content = messages'[m].content
             /\ conversations'[c].lastMessage.senderId = r[1]
             /\ UnreadOf(conversations', c, r[2]) = 1
             /\ UnreadOf(conversations', c, r[1]) = 0]_vars

\* C5 witness: the first conversation has just been created with "Bonjour".
C5_Witness ==
  /\ Len(conversations) = 1
  /\ Len(messages) = 1
  /\ resp.op = "create"
  /\ resp.status = 201
  /\ resp.conv = 1
  /\ conversations[1].lastMessage.content = Bonjour
  /\ UnreadOf(conversations, 1, conversations[1].participants[2].userId) = 1
  /\ UnreadOf(conversations, 1, resp.user) = 0

\* C6: openConversation(u, c) by a participant u of an active conversation c
\* succeeds, and on return the unread counter of u in c is 0 while the other
\* participant's counter is unchanged.
C6_OpenMarksRead ==
  [][resp'.op = "open" => \A r \in ConversationRequests :
       /\ Authenticated(r[1])
       /\ Exists(r[2])
       /\ conversations[r[2]].isActive
       /\ r[1] \in Participants(conversations, r[2])
       /\ GetConversation(r[1], r[2])
       => /\ resp'.status = 200
          /\ UnreadOf(conversations', r[2], r[1]) = 0
          /\ \A o \in Participants(conversations, r[2]) \ {r[1]} :
               UnreadOf(conversations', r[2], o) = UnreadOf(conversations, r[2], o)]_vars

\* C7: a request by a non-participant to open an existing conversation fails
\* with NotFoundError, as for a conversation that does not exist, never with
\* ForbiddenError, and changes no conversation or message state.
C7_OpenByOutsiderNotFound ==
  [][resp'.op = "open" => \A r \in ConversationRequests :
       /\ Authenticated(r[1])
       /\ Exists(r[2])
       /\ r[1] \notin Participants(conversations, r[2])
       /\ GetConversation(r[1], r[2])
       => /\ ErrorKind(resp'.status) = "NotFoundError"
          /\ ErrorKind(resp'.status) # "ForbiddenError"
          /\ conversations' = conversations
          /\ messages' = messages]_vars

\* C8: sendMessage, listMessages and markConversationRead issued by a user
\* who is not a participant of the target conversation fail as not-found and
\* leave every message and every conversation unchanged; every stored
\* message's senderId is a participant of its conversation.
C8_OutsiderRejected ==
  [][/\ resp'.op = "send" => \A r \in SendRequests :
          /\ Authenticated(r[1])
          /\ Exists(r[2])
          /\ r[1] \notin Participants(conversations, r[2])
          /\ MessageValidationErrors(r[3], r[4]) = {}
          /\ SendMessage(r[1], r[2], r[3], r[4], MaxMessages)
          => /\ ErrorKind(resp'.status) = "NotFoundError"
             /\ conversations' = conversations
             /\ messages' = messages
     /\ resp'.op = "list" => \A r \in ListRequests :
          /\ Authenticated(r[1])
          /\ Exists(r[2])
          /\ r[1] \notin Participants(conversations, r[2])
          /\ ListValidationErrors(r[3], r[4]) = {}
          /\ GetMessages(r[1], r[2], r[3], r[4])
          => /\ ErrorKind(resp'.status) = "NotFoundError"
             /\ conversations' = conversations
             /\ messages' = messages
     /\ resp'.op = "read" => \A r \in ConversationRequests :
          /\ Authenticated(r[1])
          /\ Exists(r[2])
          /\ r[1] \notin Participants(conversations, r[2])
          /\ MarkConversationRead(r[1], r[2])
          => /\ ErrorKind(resp'.status) = "NotFoundError"
             /\ conversations' = conversations
             /\ messages' = messages
     /\ \A m \in DOMAIN messages' :
          /\ messages'[m].conversationId \in DOMAIN conversations'
          /\ messages'[m].senderId
               \in Participants(conversations', messages'[m].conversationId)]_vars

\* C8 witness: u2, no participant of the stored conversation of u1 and u3,
\* has just been refused.
C8_Witness ==
  /\ Len(conversations) = 1
  /\ Len(messages) >= 1
  /\ resp.op \in {"send", "list", "read"}
  /\ resp.status = 404
  /\ Authenticated(resp.user)
  /\ resp.user \notin Participants(conversations, 1)

\* C9: a create-conversation request whose participant id is the requester's
\* own id fails with ConflictError and creates no conversation and no message.
C9_SelfConversationConflict ==
  [][resp'.op = "create" => \A r \in CreateRequests :
       /\ Authenticated(r[1])
       /\ r[2] = r[1]
       /\ CreateValidationErrors(r[2], r[3], r[4]) = {}
       /\ CreateConversation(r[1], r[2], r[3], r[4], MaxMessages)
       => /\ ErrorKind(resp'.status) = "ConflictError"
          /\ conversations' = conversations
          /\ messages' = messages]_vars

\* The matching messages of a search of conversation c for query q
Matching(c, q) ==
  {m \in DOMAIN messages :
     messages[m].conversationId = c /\ RegexMatchI(messages[m].content, q)}

\* C10: for a conversation holding k messages that match the query
\* case-insensitively, searchInConversation returns the min(k, 20) most
\* recent of them, newest first, and no message that does not match or that
\* belongs to another conversation.
C10_SearchTop20 ==
  [][resp'.op = "search" => \A r \in SearchRequests :
       /\ resp'.status = 200
       /\ r[3] # 0
       /\ SearchMessages(r[1], r[2], r[3])
       => LET ids == resp'.ids
              returned == {ids[i] : i \in DOMAIN ids}
          IN /\ Len(ids) = Min(Cardinality(Matching(r[3], r[2])), 20)
             /\ Cardinality(returned) = Len(ids)
             /\ returned \subseteq Matching(r[3], r[2])
             /\ \A i \in DOMAIN ids : \A j \in DOMAIN ids :
                  i < j => messages[ids[i]].createdAt >= messages[ids[j]].createdAt
             /\ \A m \in Matching(r[3], r[2]) \ returned : \A i \in DOMAIN ids :
                  messages[ids[i]].createdAt >= messages[m].createdAt]_vars

\* C11: searchMessages(u, q, conversationId?) never returns a message of a
\* conversation in which u is no participant: with a conversationId it fails
\* as not-found unless u participates, and otherwise returns only messages of
\* that conversation; without one it returns only messages of conversations
\* u participates in.
C11_SearchOwnConversationsOnly ==
  [][resp'.op = "search" => \A r \in SearchRequests :
       /\ Authenticated(r[1])
       /\ Len(r[2]) > 0
       /\ SearchMessages(r[1], r[2], r[3])
       => LET ids == resp'.ids
              member == r[3] \in DOMAIN conversations
                          /\ r[1] \in Participants(conversations, r[3])
          IN /\ (r[3] # 0 /\ ~member)
                  => (ErrorKind(resp'.status) = "NotFoundError" /\ ids = <<>>)
             /\ (r[3] # 0 /\ member)
                  => /\ resp'.status = 200
                     /\ \A i \in DOMAIN ids : messages[ids[i]].conversationId = r[3]
             /\ r[3] = 0 => resp'.status = 200
             /\ \A i \in DOMAIN ids :
                  r[1] \in Participants(conversations, messages[ids[i]].conversationId)]_vars

\* C11 witness: u2, a participant of conversation 2 only, searched and got
\* the message of conversation 2 while conversations 1 holds matching ones.
C11_Witness ==
  /\ resp.op = "search"
  /\ resp.user = "u2"
  /\ resp.status = 200
  /\ resp.ids = <<2>>
  /\ "u2" \notin Participants(conversations, 1)
  /\ Matching(1, QueryBon) # {}

\* C12: listMessages fetches before it marks: the isRead value of every
\* message of the returned page is its value before this call's read-marking
\* (a message this call marks read for the first time is returned with
\* isRead = false), while the stored message is read once the call completes.
C12_FetchBeforeMark ==
  [][resp'.op = "list" => \A r \in ListRequests :
       /\ resp'.status = 200
       /\ GetMessages(r[1], r[2], r[3], r[4])
       => /\ Len(resp'.flags) = Len(resp'.ids)
          /\ \A i \in DOMAIN resp'.ids :
               LET m == resp'.ids[i] IN
               /\ messages[m].conversationId = r[2]
               /\ resp'.flags[i] = messages[m].isRead
               /\ messages[m].senderId # r[1] => messages'[m].isRead
               /\ (messages[m].senderId # r[1] /\ ~messages[m].isRead)
                    => (resp'.flags[i] = FALSE /\ messages'[m].isRead = TRUE)]_vars

\* C12 witness: the last list call returned a message as unread that is
\* stored as read.
C12_Witness ==
  /\ resp.op = "list"
  /\ resp.status = 200
  /\ \E i \in DOMAIN resp.ids :
       /\ resp.flags[i] = FALSE
       /\ messages[resp.ids[i]].isRead
       /\ messages[resp.ids[i]].senderId # resp.user

\* What read-marking by u in conversation c may change
ReadMarkingFrame(u, c) ==
  /\ Len(messages') = Len(messages)
  /\ \A m \in DOMAIN messages :
       IF /\ messages[m].conversationId = c
          /\ messages[m].senderId # u
          /\ ~messages[m].isRead
         THEN /\ messages'[m].isRead = TRUE
              /\ [messages'[m] EXCEPT !.isRead = FALSE, !.readAt = NullDate] = messages[m]
         ELSE messages'[m] = messages[m]

\* C13: read-marking by u in conversation c, through listMessages or
\* markConversationRead, sets isRead on every message of c whose sender is
\* not u and that was unread, and leaves isRead and readAt unchanged on every
\* message sent by u, on every message already read and on every message of
\* another conversation.
C13_ReadMarkingFrame ==
  [][/\ resp'.op = "list" => \A u \in UserIds, c \in DOMAIN conversations :
          /\ resp'.status = 200
          /\ GetMessages(u, c, 0, 0)
          => ReadMarkingFrame(u, c)
     /\ resp'.op = "read" => \A u \in UserIds, c \in DOMAIN conversations :
          /\ resp'.status = 200
          /\ MarkConversationRead(u, c)
          => ReadMarkingFrame(u, c)]_vars

\* C13 witness: after a second read-marking by the same user, at a later
\* clock reading, the message read earlier keeps its readAt and the user's
\* own message is still unread.
C13_Witness ==
  /\ resp.op \in {"list", "read"}
  /\ resp.status = 200
  /\ Len(messages) = 2
  /\ messages[1].conversationId = messages[2].conversationId
  /\ messages[1].senderId # resp.user
  /\ messages[1].isRead
  /\ messages[1].readAt < now
  /\ messages[2].senderId = resp.user
  /\ ~messages[2].isRead
  /\ messages[2].createdAt > messages[1].readAt

\* C14: unreadTotal(u) is the number of stored messages that are unread,
\* not sent by u and of a conversation u participates in; u's own messages
\* and messages of other conversations are never counted, and the result is
\* 0 when there is no such message.
C14_UnreadTotal ==
  (resp.op = "unread" /\ resp.status = 200)
    => resp.total =
         Cardinality({m \in DOMAIN messages :
                        /\ ~messages[m].isRead
                        /\ messages[m].senderId # resp.user
                        /\ resp.user \in Participants(conversations, messages[m].conversationId)})

\* C14 witness: a total of 1 is reported to a user while two unread messages
\* are stored, the other one sent by that user.
C14_Witness ==
  /\ resp.op = "unread"
  /\ resp.status = 200
  /\ resp.total = 1
  /\ Len(messages) = 2
  /\ \A m \in DOMAIN messages : ~messages[m].isRead
  /\ \E m \in DOMAIN messages : messages[m].senderId = resp.user

\* Every participant's counter equals the number of unread messages of the
\* conversation that the other participant sent
UnreadConsistent(convs, msgs) ==
  \A c \in DOMAIN convs : \A u \in Participants(convs, c) :
    UnreadOf(convs, c, u) =
      Cardinality({m \in DOMAIN msgs : /\ msgs[m].conversationId = c
                                       /\ msgs[m].senderId # u
                                       /\ ~msgs[m].isRead})

\* C15: between requests, after any sequence of send, openConversation,
\* listMessages and markConversationRead operations, each participant's
\* unreadCount entry of a conversation equals the number of unread messages
\* of that conversation sent by the other participant: each of these
\* operations preserves that equality.
C15_UnreadCounterMatchesMessages ==
  [][(/\ resp'.op \in {"send", "open", "list", "read"}
      /\ UnreadConsistent(conversations, messages))
       => UnreadConsistent(conversations', messages')]_vars

\* No request is between two store operations
Quiescent == \A t \in TaskIds : tasks[t].pc \in {"idle", "done"}

\* The send requests received so far
Sends == {t \in TaskIds : tasks[t].kind = "send"}

\* C16: when the n concurrent sends of u1 to its conversation with u3 have
\* all completed successfully, whatever the interleaving of their store reads
\* and writes, and u3 has marked nothing read, unreadCount[u3] is exactly n
\* higher than it was before them.
C16_ConcurrentSendsAllCounted ==
  (/\ Quiescent
   /\ \A t \in Sends : tasks[t].status = 201)
    => UnreadOf(conversations, 1, "u3") =
         UnreadOf(StartedConversations, 1, "u3") + Cardinality(Sends)

\* C17: in every reachable state, including those reached by interleaving
\* the store operations of concurrent getOrCreate requests of either user,
\* at most one active conversation exists for each unordered pair of users.
C17_OneActiveConversationPerPair ==
  \A a \in UserIds, b \in UserIds :
    a # b => Cardinality(BetweenUsers(conversations, a, b)) <= 1

\* C18: a send is all-or-nothing.  For a send that has completed with no
\* other request in progress or completed: when it reports success, its
\* message is stored and the conversation's lastMessage and the recipient's
\* unreadCount show it; when it reports a failure (one of its store writes
\* failed), no message was added and lastMessage and unreadCount are what
\* they were before the request.
C18_SendAllOrNothing ==
  \A t \in Sends :
    (/\ tasks[t].pc = "done"
     /\ \A s \in TaskIds \ {t} : tasks[s].pc = "idle")
      => IF tasks[t].status = 201
           THEN /\ Len(messages) = Len(StartedMessages) + 1
                /\ messages[Len(messages)].content = tasks[t].content
                /\ conversations[1].lastMessage.content =
                     Substring(tasks[t].content, LastMessageMaxLength)
                /\ UnreadOf(conversations, 1, "u3") =
                     UnreadOf(StartedConversations, 1, "u3") + 1
           ELSE /\ messages = StartedMessages
                /\ conversations[1].lastMessage = StartedConversations[1].lastMessage
                /\ conversations[1].unreadCount = StartedConversations[1].unreadCount

\* C19: the last-message sync fires exactly once per successful append and
\* only after the message is persisted: a request that has written the
\* conversation's lastMessage has stored a message before, and a request
\* that has completed successfully, having appended one message, has caused
\* exactly one write of lastMessage.
C19_LastMessageSyncOncePerAppend ==
  \A t \in TaskIds :
    /\ tasks[t].lastMessageWrites > 0 => tasks[t].msg \in DOMAIN messages
    /\ (tasks[t].pc = "done" /\ tasks[t].status = 201)
         => tasks[t].lastMessageWrites = 1

\* C20: across any sequence or interleaving of store operations, no step
\* makes a conversation's lastMessage.timestamp smaller than it was.
C20_LastMessageTimestampMonotone ==
  [][\A c \in DOMAIN conversations :
       conversations'[c].lastMessage.timestamp
         >= conversations[c].lastMessage.timestamp]_vars

\* The newest stored message of conversation c (0 when it has none); the
\* store keeps messages in the order of their insertion
NewestMessage(msgs, c) ==
  LET of == {m \in DOMAIN msgs : msgs[m].conversationId = c} IN
  IF of = {} THEN 0 ELSE CHOOSE m \in of : \A n \in of : n <= m

\* C21: once all the concurrent sends to a conversation have completed
\* successfully, whatever their interleaving, the conversation's
\* lastMessage.content and lastMessage.senderId are those of its most
\* recently created message, the content cut to 100 characters.
C21_LastMessageIsNewest ==
  (/\ Quiescent
   /\ Sends # {}
   /\ \A t \in Sends : tasks[t].status = 201)
    => LET newest == messages[NewestMessage(messages, 1)] IN
       /\ conversations[1].lastMessage.content =
            Substring(newest.content, LastMessageMaxLength)
       /\ conversations[1].lastMessage.senderId = newest.senderId

\* C22: in every state a read can observe, between the store operations of
\* a send included, every conversation's lastMessage.content has at most
\* 100 characters.
C22_LastMessageAtMost100 ==
  \A c \in DOMAIN conversations :
    Length(conversations[c].lastMessage.content) <= LastMessageMaxLength

\* C25: in every reachable state, every conversation has exactly two
\* participants, and their user ids are distinct.
C25_TwoDistinctParticipants ==
  \A c \in DOMAIN conversations :
    /\ Len(conversations[c].participants) = 2
    /\ conversations[c].participants[1].userId
         # conversations[c].participants[2].userId

\* C26: in every reachable state, the keys of a conversation's unreadCount
\* are exactly its participants' user ids, and every value is a
\* non-negative integer.
C26_UnreadCountKeys ==
  \A c \in DOMAIN conversations :
    /\ DOMAIN conversations[c].unreadCount =
         {<<u>> : u \in Participants(conversations, c)}
    /\ \A k \in DOMAIN conversations[c].unreadCount :
         conversations[c].unreadCount[k] \in Nat

\* C23: markRead is idempotent: applied to a message whose isRead is
\* already true it succeeds and leaves the message's isRead and readAt as
\* they were.
C23_MarkReadIdempotent ==
  [][resp'.op = "markAsRead" => \A m \in DOMAIN messages :
       /\ messages[m].isRead
       /\ MarkMessageRead(m)
       => /\ resp'.status = 200
          /\ messages'[m].isRead = messages[m].isRead
          /\ messages'[m].readAt = messages[m].readAt]_vars

\* C24: read and edit state are one-way and messages are never removed: no
\* step takes a stored message away or replaces it by another one, sets
\* isRead back to false on a message that was read, or sets isEdited back to
\* false on a message that was edited.
C24_ReadAndEditOneWay ==
  [][/\ Len(messages') >= Len(messages)
     /\ \A m \in DOMAIN messages :
          /\ messages'[m].conversationId = messages[m].conversationId
          /\ messages'[m].senderId = messages[m].senderId
          /\ messages'[m].createdAt = messages[m].createdAt
          /\ messages[m].isRead => messages'[m].isRead
          /\ messages[m].isEdited => messages'[m].isEdited]_vars

\* C24 witness: a message that was read and then edited is marked read
\* again later, with a second message stored: it is still read and edited.
C24_Witness ==
  /\ resp.op = "markAsRead"
  /\ resp.status = 200
  /\ resp.ids = <<1>>
  /\ Len(messages) = 2
  /\ messages[1].isRead
  /\ messages[1].isEdited
  /\ messages[1].editedAt < messages[1].readAt
  /\ messages[1].content = Merci

\* C29: a successful save of a stored message through markAsRead or
\* editContent, when the message is not the newest of its conversation,
\* leaves the conversation's lastMessage (content, senderId, timestamp) and
\* updatedAt unchanged.
C29_OldMessageSaveKeepsLastMessage ==
  [][resp'.op \in {"markAsRead", "editContent"} => \A m \in DOMAIN messages :
       /\ resp'.status = 200
       /\ resp'.ids = <<m>>
       /\ m # NewestMessage(messages, messages[m].conversationId)
       => LET c == messages[m].conversationId IN
          /\ conversations'[c].lastMessage = conversations[c].lastMessage
          /\ conversations'[c].updatedAt = conversations[c].updatedAt]_vars

\* C28: a create-conversation request that is authenticated and valid and
\* whose target user does not exist or is inactive fails with NotFoundError
\* and changes no conversation (so no unread counter) and no message, whether
\* or not a conversation between the two users exists.
C28_MissingTargetNotFound ==
  [][resp'.op = "create" => \A r \in CreateRequests :
       /\ Authenticated(r[1])
       /\ CreateValidationErrors(r[2], r[3], r[4]) = {}
       /\ \/ CastObjectId(r[2]) \notin UserIds
          \/ ~users[CastObjectId(r[2])].isActive
       /\ CreateConversation(r[1], r[2], r[3], r[4], MaxMessages)
       => /\ ErrorKind(resp'.status) = "NotFoundError"
          /\ conversations' = conversations
          /\ messages' = messages]_vars

\* C28 witness: u1 is answered 404 when, u3's account being deleted, u1
\* already has a conversation with u3 and one with u2 (so that no missing
\* listing can be the reason).
C28_Witness ==
  /\ resp.op = "create"
  /\ resp.status = 404
  /\ resp.user = "u1"
  /\ ~users["u3"].isActive
  /\ BetweenUsers(conversations, "u1", "u3") # {}
  /\ BetweenUsers(conversations, "u1", "u2") # {}

C30_ActiveServiceOwnedByProvider ==
  Quiescent =>
    \A s \in DOMAIN services :
      services[s].isActive =>
        /\ users[services[s].userId].isActive
        /\ users[services[s].userId].type = "prestataire"

====
